---- MODULE Spec2Model ----
(***************************************************************************)
(* Model of scripts/generate_bin_qr_codes.py: the command line driver      *)
(* main(), the BinQRGenerator batch loops, the payload builder, the        *)
(* renderer's file output and the manifest writer.                         *)
(*                                                                         *)
(* Python strings are sequences of one-character strings, so that          *)
(* formatting, upper(), lower() and replace() are computed character by    *)
(* character.  Coordinates are the source's decimal degrees times 10^4.    *)
(***************************************************************************)
EXTENDS Integers, Sequences, FiniteSets, TLC

\* ------------------------------------------------------------------------
\* Bounds of the model
\* ------------------------------------------------------------------------
\* largest --count given on the command line
MaxCount == 11
\* largest value the UTC clock reaches
MaxClock == 1

\* ------------------------------------------------------------------------
\* Class constants
\* ------------------------------------------------------------------------
CATEGORIES ==
  << <<"r","e","c","y","c","l","e">>,
     <<"o","r","g","a","n","i","c">>,
     <<"l","a","n","d","f","i","l","l">>,
     <<"e","w","a","s","t","e">>,
     <<"h","a","z","a","r","d","o","u","s">> >>

SAMPLE_LOCATIONS ==
  << [lat |-> 377749, lng |-> -1224194,
      name |-> <<"D","o","w","n","t","o","w","n"," ","S","F"," ","-"," ","M","a","r","k","e","t"," ","S","t">>],
     [lat |-> 377849, lng |-> -1224094,
      name |-> <<"D","o","w","n","t","o","w","n"," ","S","F"," ","-"," ","U","n","i","o","n"," ","S","q","u","a","r","e">>],
     [lat |-> 377649, lng |-> -1224294,
      name |-> <<"D","o","w","n","t","o","w","n"," ","S","F"," ","-"," ","S","O","M","A">>],
     [lat |-> 378719, lng |-> -1222585,
      name |-> <<"U","C"," ","B","e","r","k","e","l","e","y"," ","C","a","m","p","u","s">>],
     [lat |-> 378619, lng |-> -1222485,
      name |-> <<"B","e","r","k","e","l","e","y"," ","D","o","w","n","t","o","w","n">>],
     [lat |-> 377694, lng |-> -1224862,
      name |-> <<"G","o","l","d","e","n"," ","G","a","t","e"," ","P","a","r","k">>],
     [lat |-> 378024, lng |-> -1224058,
      name |-> <<"P","r","e","s","i","d","i","o"," ","P","a","r","k">>],
     [lat |-> 377849, lng |-> -1224094,
      name |-> <<"M","i","s","s","i","o","n"," ","D","i","s","t","r","i","c","t">>],
     [lat |-> 377949, lng |-> -1223994,
      name |-> <<"C","a","s","t","r","o"," ","D","i","s","t","r","i","c","t">>],
     [lat |-> 378049, lng |-> -1224194,
      name |-> <<"P","a","c","i","f","i","c"," ","H","e","i","g","h","t","s">>] >>

\* choices=['PNG', 'JPEG', 'SVG'] of the --format argument
FORMAT_CHOICES ==
  { <<"P","N","G">>, <<"J","P","E","G">>, <<"S","V","G">> }

\* default of --output-dir
DEFAULT_OUTPUT_DIR == <<".","/","q","r","_","c","o","d","e","s">>

\* default of --count
DEFAULT_COUNT == 5

\* the --format of the usage line of the module docstring
USAGE_FORMAT == <<"p","n","g">>

\* ------------------------------------------------------------------------
\* String helpers (str.upper, str.lower, str.replace, format spec 03d)
\* ------------------------------------------------------------------------
LowerLetters ==
  <<"a","b","c","d","e","f","g","h","i","j","k","l","m","n","o","p","q","r","s","t","u","v","w","x","y","z">>

UpperLetters ==
  <<"A","B","C","D","E","F","G","H","I","J","K","L","M","N","O","P","Q","R","S","T","U","V","W","X","Y","Z">>

DigitChars == <<"0","1","2","3","4","5","6","7","8","9">>

UpperChar(c) ==
  IF \E k \in DOMAIN LowerLetters : LowerLetters[k] = c
    THEN UpperLetters[CHOOSE k \in DOMAIN LowerLetters : LowerLetters[k] = c]
    ELSE c

LowerChar(c) ==
  IF \E k \in DOMAIN UpperLetters : UpperLetters[k] = c
    THEN LowerLetters[CHOOSE k \in DOMAIN UpperLetters : UpperLetters[k] = c]
    ELSE c

\* s.upper()
Upper(s) == [k \in DOMAIN s |-> UpperChar(s[k])]

\* s.lower()
Lower(s) == [k \in DOMAIN s |-> LowerChar(s[k])]

\* s.replace(old, new) for one-character old and new
Replace(s, old, new) == [k \in DOMAIN s |-> IF s[k] = old THEN new ELSE s[k]]

RECURSIVE Digits(_)
\* decimal digits of n >= 0, most significant first
Digits(n) ==
  IF n < 10 THEN <<DigitChars[n + 1]>>
  ELSE Append(Digits(n \div 10), DigitChars[(n % 10) + 1])

RECURSIVE ZeroPad(_, _)
\* s padded on the left with "0" to at least width w
ZeroPad(s, w) == IF Len(s) >= w THEN s ELSE ZeroPad(<<"0">> \o s, w)

\* f"{n:03d}": minimum width 3, zero padded, the sign counted in the width
Format03d(n) ==
  IF n >= 0 THEN ZeroPad(Digits(n), 3)
  ELSE <<"-">> \o ZeroPad(Digits(0 - n), 2)

\* ------------------------------------------------------------------------
\* geohash.encode(lat, lng, precision=8)
\* ------------------------------------------------------------------------
Base32 ==
  <<"0","1","2","3","4","5","6","7","8","9","b","c","d","e","f","g","h","j","k","m","n","p","q","r","s","t","u","v","w","x","y","z">>

LatSpan == 1800000
LngSpan == 3600000

RECURSIVE GeohashBits(_, _, _, _)
\* Interval bisection, longitude first.  x and y are twice-scaled offsets
\* of the longitude and latitude inside their current interval, so that
\* "value > mid" is 2*offset > span.
GeohashBits(x, y, even, n) ==
  IF n = 0 THEN <<>>
  ELSE IF even
    THEN IF 2 * x > LngSpan
           THEN <<1>> \o GeohashBits(2 * x - LngSpan, y, FALSE, n - 1)
           ELSE <<0>> \o GeohashBits(2 * x, y, FALSE, n - 1)
    ELSE IF 2 * y > LatSpan
           THEN <<1>> \o GeohashBits(x, 2 * y - LatSpan, TRUE, n - 1)
           ELSE <<0>> \o GeohashBits(x, 2 * y, TRUE, n - 1)

GeohashEncode(lat, lng, precision) ==
  LET b == GeohashBits(lng + LngSpan \div 2, lat + LatSpan \div 2, TRUE, 5 * precision)
      ch(k) == 16 * b[5 * k - 4] + 8 * b[5 * k - 3] + 4 * b[5 * k - 2]
               + 2 * b[5 * k - 1] + b[5 * k]
  IN  [k \in 1..precision |-> Base32[ch(k) + 1]]

\* ------------------------------------------------------------------------
\* BinQRGenerator: pure parts
\* ------------------------------------------------------------------------
\* fault injection: a bin id that leaves the category out
generate_bin_id_no_category(location_idx, category) ==
  <<"B","I","N","_">> \o Format03d(location_idx)

\* f"BIN_{location_idx:03d}_{category.upper()}"
generate_bin_id(location_idx, category) ==
  <<"B","I","N","_">> \o Format03d(location_idx) \o <<"_">> \o Upper(category)

\* f"TEST_{i:03d}_{category.upper()}"
test_bin_id(i, category) ==
  <<"T","E","S","T","_">> \o Format03d(i) \o <<"_">> \o Upper(category)

\* fault injection: a payload whose latitude drifts with the clock
create_bin_payload_drifting(bin_id, category, lat, lng, t) ==
  [bin_id       |-> bin_id,
   category     |-> category,
   latitude     |-> lat + t,
   longitude    |-> lng,
   geohash      |-> GeohashEncode(lat, lng, 8),
   generated_at |-> t,
   version      |-> "1.0"]

\* the payload dictionary; t is the value of datetime.utcnow()
create_bin_payload(bin_id, category, lat, lng, t) ==
  [bin_id       |-> bin_id,
   category     |-> category,
   latitude     |-> lat,
   longitude    |-> lng,
   geohash      |-> GeohashEncode(lat, lng, 8),
   generated_at |-> t,
   version      |-> "1.0"]

\* fault injection: only the spaces are replaced
safe_name_spaces_only(name) == Replace(name, " ", "_")

\* location['name'].replace(' ', '_').replace('-', '_')
safe_name(name) == Replace(Replace(name, " ", "_"), "-", "_")

\* f"{safe_name}_{category}_{bin_id}"
full_filename(name, category, bin_id) ==
  safe_name(name) \o <<"_">> \o category \o <<"_">> \o bin_id

\* f"test_{i:03d}_{category}_{bin_id}"
test_filename(i, category, bin_id) ==
  <<"t","e","s","t","_">> \o Format03d(i) \o <<"_">> \o category
    \o <<"_">> \o bin_id

\* os.path.join(self.output_dir, f"{filename}.{format.lower()}")
qr_filepath(dir, filename, format) ==
  dir \o <<"/">> \o filename \o <<".">> \o Lower(format)

\* {**payload, 'location_name': ..., 'qr_file': ..., 'filename': ...}
bin_info(payload, name, filepath, filename) ==
  [bin_id        |-> payload.bin_id,
   category      |-> payload.category,
   latitude      |-> payload.latitude,
   longitude     |-> payload.longitude,
   geohash       |-> payload.geohash,
   generated_at  |-> payload.generated_at,
   version       |-> payload.version,
   location_name |-> name,
   qr_file       |-> filepath,
   filename      |-> filename]

\* the payload of a record, less the time it was generated at
payload_fields(b) ==
  [bin_id    |-> b.bin_id,
   category  |-> b.category,
   latitude  |-> b.latitude,
   longitude |-> b.longitude,
   geohash   |-> b.geohash,
   version   |-> b.version]

\* fault injection: total_bins taken from the size of the full product
build_manifest_fixed_total(bin_list, t) ==
  [generated_at    |-> t,
   total_bins      |-> Len(SAMPLE_LOCATIONS) * Len(CATEGORIES),
   categories      |-> CATEGORIES,
   locations_count |-> Len(SAMPLE_LOCATIONS),
   bins            |-> bin_list]

\* the manifest dictionary of save_bin_manifest
build_manifest(bin_list, t) ==
  [generated_at    |-> t,
   total_bins      |-> Len(bin_list),
   categories      |-> CATEGORIES,
   locations_count |-> Len(SAMPLE_LOCATIONS),
   bins            |-> bin_list]

\* fault injection: the inner loop stops one category early
next_full_skip_last(l, c) ==
  IF c + 1 < Len(CATEGORIES) - 1 THEN <<l, c + 1>> ELSE <<l + 1, 0>>

\* the inner/outer loop advance of generate_all_bins: the pair after
\* (loc_idx, cat_idx), categories innermost
next_full(l, c) ==
  IF c + 1 < Len(CATEGORIES) THEN <<l, c + 1>> ELSE <<l + 1, 0>>

\* SAMPLE_LOCATIONS[i % len(SAMPLE_LOCATIONS)]
test_location(i) == SAMPLE_LOCATIONS[(i % Len(SAMPLE_LOCATIONS)) + 1]

\* fault injection: the category advances every second record
test_category_by_pairs(i) == CATEGORIES[((i \div 2) % Len(CATEGORIES)) + 1]

\* CATEGORIES[i % len(CATEGORIES)]
test_category(i) == CATEGORIES[(i % Len(CATEGORIES)) + 1]

\* fault injection: the loop runs one pass too many
in_range_inclusive(i, n) == i <= n

\* range(count) still has an element at position i
in_range(i, n) == i < n

\* ------------------------------------------------------------------------
\* State
\* ------------------------------------------------------------------------
VARIABLES
  arg_format,      \* args.format as typed on the command line
  test_only,       \* args.test_only
  count,           \* args.count
  output_dir,      \* args.output_dir
  pc,              \* position of main(): start, construct, full, test,
                   \*   manifest, done
  result,          \* how main() ended: none, return0, return1,
                   \*   exit2 (argparse error), uncaught (exception left main)
  failed,          \* the step that raised: none, mkdir, render, manifest
  dir_exists,      \* os.path.exists(output_dir)
  files,           \* image paths present in the output directory
  manifest,        \* what the current run dumped to bin_manifest.json:
                   \*   <<>> or <<dictionary>>
  now,             \* the UTC clock
  loc_idx,         \* generate_all_bins: outer loop index
  cat_idx,         \* generate_all_bins: inner loop index
  i,               \* generate_test_bins: loop index
  bins,            \* generated_bins / test_bins of the current run
  written,         \* paths img.save wrote in the current run, in order
  payload_calls,   \* create_bin_payload calls of the current run
  render_calls,    \* generate_qr_code calls of the current run
  manifest_writes, \* manifests written by the current run
  run,             \* 1 for the first invocation, 2 for the re-run
  prev_payloads    \* the payloads the first invocation encoded, without
                   \*   their generated_at

vars == <<arg_format, test_only, count, output_dir, pc, result, failed,
          dir_exists, files, manifest, now, loc_idx, cat_idx, i, bins,
          written, payload_calls, render_calls, manifest_writes, run,
          prev_payloads>>

args == <<arg_format, test_only, count, output_dir>>
loopvars == <<loc_idx, cat_idx, i>>

\* command lines tried: the formats given to --format, the default and the
\* usage line's
FormatArgs == { <<"P","N","G">>, USAGE_FORMAT }

\* the values given to --count (type=int accepts negative numbers)
CountArgs == {0 - 1} \cup (0..MaxCount)

Init ==
  /\ arg_format \in FormatArgs
  /\ test_only \in BOOLEAN
  /\ count \in (IF test_only THEN CountArgs ELSE {DEFAULT_COUNT})
  /\ output_dir = DEFAULT_OUTPUT_DIR
  /\ pc = "start"
  /\ result = "none"
  /\ failed = "none"
  /\ dir_exists \in BOOLEAN
  /\ files = {}
  /\ manifest = <<>>
  /\ now = 0
  /\ loc_idx = 0
  /\ cat_idx = 0
  /\ i = 0
  /\ bins = <<>>
  /\ written = <<>>
  /\ payload_calls = 0
  /\ render_calls = 0
  /\ manifest_writes = 0
  /\ run = 1
  /\ prev_payloads = <<>>

\* datetime.utcnow(): the clock does not go back
utcnow(t) == t \in {now, now + 1} /\ t <= MaxClock

\* ------------------------------------------------------------------------
\* main()
\* ------------------------------------------------------------------------
\* parser.parse_args() accepts the command line
ParseArgsAccept ==
  /\ pc = "start"
  /\ arg_format \in FORMAT_CHOICES
  /\ pc' = "construct"
  /\ UNCHANGED <<args, result, failed, dir_exists, files, manifest, now,
                 loopvars, bins, written, payload_calls, render_calls,
                 manifest_writes, run, prev_payloads>>

\* parser.parse_args() rejects --format: parser.error() exits with status 2
ParseArgsReject ==
  /\ pc = "start"
  /\ arg_format \notin FORMAT_CHOICES
  /\ pc' = "done"
  /\ result' = "exit2"
  /\ UNCHANGED <<args, failed, dir_exists, files, manifest, now, loopvars,
                 bins, written, payload_calls, render_calls,
                 manifest_writes, run, prev_payloads>>

\* BinQRGenerator(output_dir=...) with ensure_output_dir succeeding; main
\* then enters the try block and the branch of args.test_only
Construct ==
  /\ pc = "construct"
  /\ dir_exists' = TRUE
  /\ pc' = IF test_only THEN "test" ELSE "full"
  /\ UNCHANGED <<args, result, failed, files, manifest, now, loopvars, bins,
                 written, payload_calls, render_calls, manifest_writes, run,
                 prev_payloads>>

\* os.makedirs raises inside the constructor, which main calls before its
\* try block: the exception leaves main
ConstructRaise ==
  /\ pc = "construct"
  /\ ~dir_exists
  /\ pc' = "done"
  /\ result' = "uncaught"
  /\ failed' = "mkdir"
  /\ UNCHANGED <<args, dir_exists, files, manifest, now, loopvars, bins,
                 written, payload_calls, render_calls, manifest_writes, run,
                 prev_payloads>>

\* fault injection: the handler falls through to the final return 0
main_except_returns0(step) ==
  /\ failed' = step
  /\ result' = "return0"
  /\ pc' = "done"

\* except Exception as e: print(...); return 1
main_except(step) ==
  /\ failed' = step
  /\ result' = "return1"
  /\ pc' = "done"

\* ------------------------------------------------------------------------
\* generate_all_bins
\* ------------------------------------------------------------------------
\* one pass of the inner loop body, generate_qr_code saving the image
GenerateAllBinsStep ==
  /\ pc = "full"
  /\ loc_idx < Len(SAMPLE_LOCATIONS)
  /\ \E t \in 0..MaxClock :
       /\ utcnow(t)
       /\ LET location == SAMPLE_LOCATIONS[loc_idx + 1]
              category == CATEGORIES[cat_idx + 1]
              bin_id   == generate_bin_id(loc_idx, category)
              payload  == create_bin_payload(bin_id, category, location.lat,
                                             location.lng, t)
              filename == full_filename(location.name, category, bin_id)
              filepath == qr_filepath(output_dir, filename, arg_format)
              nxt      == next_full(loc_idx, cat_idx)
          IN  /\ now' = t
              /\ files' = files \cup {filepath}
              /\ written' = Append(written, filepath)
              /\ bins' = Append(bins, bin_info(payload, location.name,
                                               filepath, filename))
              /\ loc_idx' = nxt[1]
              /\ cat_idx' = nxt[2]
  /\ payload_calls' = payload_calls + 1
  /\ render_calls' = render_calls + 1
  /\ UNCHANGED <<args, pc, result, failed, dir_exists, manifest, i,
                 manifest_writes, run, prev_payloads>>

\* one pass of the inner loop body, generate_qr_code raising
GenerateAllBinsRaise ==
  /\ pc = "full"
  /\ loc_idx < Len(SAMPLE_LOCATIONS)
  /\ \E t \in 0..MaxClock :
       /\ utcnow(t)
       /\ now' = t
  /\ payload_calls' = payload_calls + 1
  /\ render_calls' = render_calls + 1
  /\ main_except("render")
  /\ UNCHANGED <<args, dir_exists, files, manifest, loopvars, bins, written,
                 manifest_writes, run, prev_payloads>>

\* both loops exhausted: return generated_bins
GenerateAllBinsReturn ==
  /\ pc = "full"
  /\ ~(loc_idx < Len(SAMPLE_LOCATIONS))
  /\ pc' = "manifest"
  /\ UNCHANGED <<args, result, failed, dir_exists, files, manifest, now,
                 loopvars, bins, written, payload_calls, render_calls,
                 manifest_writes, run, prev_payloads>>

\* ------------------------------------------------------------------------
\* generate_test_bins
\* ------------------------------------------------------------------------
\* one pass of the loop body, generate_qr_code saving the image
GenerateTestBinsStep ==
  /\ pc = "test"
  /\ in_range(i, count)
  /\ \E t \in 0..MaxClock :
       /\ utcnow(t)
       /\ LET location == test_location(i)
              category == test_category(i)
              bin_id   == test_bin_id(i, category)
              payload  == create_bin_payload(bin_id, category, location.lat,
                                             location.lng, t)
              filename == test_filename(i, category, bin_id)
              filepath == qr_filepath(output_dir, filename, arg_format)
          IN  /\ now' = t
              /\ files' = files \cup {filepath}
              /\ written' = Append(written, filepath)
              /\ bins' = Append(bins, bin_info(payload, location.name,
                                               filepath, filename))
  /\ i' = i + 1
  /\ payload_calls' = payload_calls + 1
  /\ render_calls' = render_calls + 1
  /\ UNCHANGED <<args, pc, result, failed, dir_exists, manifest, loc_idx,
                 cat_idx, manifest_writes, run, prev_payloads>>

\* one pass of the loop body, generate_qr_code raising
GenerateTestBinsRaise ==
  /\ pc = "test"
  /\ in_range(i, count)
  /\ \E t \in 0..MaxClock :
       /\ utcnow(t)
       /\ now' = t
  /\ payload_calls' = payload_calls + 1
  /\ render_calls' = render_calls + 1
  /\ main_except("render")
  /\ UNCHANGED <<args, dir_exists, files, manifest, loopvars, bins, written,
                 manifest_writes, run, prev_payloads>>

\* range(count) exhausted: return test_bins
GenerateTestBinsReturn ==
  /\ pc = "test"
  /\ ~in_range(i, count)
  /\ pc' = "manifest"
  /\ UNCHANGED <<args, result, failed, dir_exists, files, manifest, now,
                 loopvars, bins, written, payload_calls, render_calls,
                 manifest_writes, run, prev_payloads>>

\* ------------------------------------------------------------------------
\* save_bin_manifest and the end of main
\* ------------------------------------------------------------------------
\* the manifest is written, main prints the summary and returns 0
SaveBinManifest ==
  /\ pc = "manifest"
  /\ \E t \in 0..MaxClock :
       /\ utcnow(t)
       /\ now' = t
       /\ manifest' = <<build_manifest(bins, t)>>
  /\ manifest_writes' = manifest_writes + 1
  /\ result' = "return0"
  /\ pc' = "done"
  /\ UNCHANGED <<args, failed, dir_exists, files, loopvars, bins, written,
                 payload_calls, render_calls, run, prev_payloads>>

\* open(manifest_path, 'w') raises
SaveBinManifestRaise ==
  /\ pc = "manifest"
  /\ \E t \in 0..MaxClock :
       /\ utcnow(t)
       /\ now' = t
  /\ main_except("manifest")
  /\ UNCHANGED <<args, dir_exists, files, manifest, loopvars, bins, written,
                 payload_calls, render_calls, manifest_writes, run,
                 prev_payloads>>

\* the script is invoked a second time with the same command line, on the
\* output directory the first invocation left
Rerun ==
  /\ pc = "done"
  /\ result = "return0"
  /\ run = 1
  /\ run' = 2
  /\ prev_payloads' = [k \in DOMAIN bins |-> payload_fields(bins[k])]
  /\ pc' = "start"
  /\ result' = "none"
  /\ loc_idx' = 0
  /\ cat_idx' = 0
  /\ i' = 0
  /\ bins' = <<>>
  /\ written' = <<>>
  /\ payload_calls' = 0
  /\ render_calls' = 0
  /\ manifest_writes' = 0
  /\ manifest' = <<>>
  /\ UNCHANGED <<args, failed, dir_exists, files, now>>

Next ==
  \/ ParseArgsAccept
  \/ ParseArgsReject
  \/ Construct
  \/ ConstructRaise
  \/ GenerateAllBinsStep
  \/ GenerateAllBinsRaise
  \/ GenerateAllBinsReturn
  \/ GenerateTestBinsStep
  \/ GenerateTestBinsRaise
  \/ GenerateTestBinsReturn
  \/ SaveBinManifest
  \/ SaveBinManifestRaise
  \/ Rerun

Spec == Init /\ [][Next]_vars

\* ------------------------------------------------------------------------
\* Types
\* ------------------------------------------------------------------------
TypeOK ==
  /\ pc \in {"start", "construct", "full", "test", "manifest", "done"}
  /\ result \in {"none", "return0", "return1", "exit2", "uncaught"}
  /\ failed \in {"none", "mkdir", "render", "manifest"}
  /\ now \in 0..MaxClock
  /\ run \in 1..2
  /\ Len(manifest) <= 1
  /\ \A k \in DOMAIN bins :
       bins[k].geohash \in [1..8 -> {Base32[j] : j \in DOMAIN Base32}]

\* ------------------------------------------------------------------------
\* Properties
\* ------------------------------------------------------------------------
\* the paths of a sequence are pairwise distinct
Distinct(seq) == Cardinality({seq[k] : k \in DOMAIN seq}) = Len(seq)

\* name with every space and every hyphen replaced by an underscore
Sanitized(name) ==
  [k \in DOMAIN name |-> IF name[k] \in {" ", "-"} THEN "_" ELSE name[k]]

\* the run ended with main returning 0
Succeeded == pc = "done" /\ result = "return0"

\* C1: within one run, full mode or test mode with any count, no two
\* generated records carry the same bin_id.
C1_BinIdsUnique ==
  Cardinality({bins[k].bin_id : k \in DOMAIN bins}) = Len(bins)

\* a full-mode run that generated every record
C1_Witness ==
  /\ ~test_only
  /\ Len(bins) = Len(SAMPLE_LOCATIONS) * Len(CATEGORIES)

\* C2: every failure raised in a run (creating the output directory,
\* rendering or saving an image, writing the manifest) ends in main's handler
\* returning 1, and main returns 0 only when every step has succeeded.
C2_AllFailuresCaught ==
  /\ failed # "none" => result = "return1"
  /\ result = "return0" => (failed = "none" /\ manifest_writes = 1)

\* C3 as stated: a test-mode run with count N writes N pairwise distinct
\* image files and a manifest of N records with total_bins = N, for every
\* count the command line accepts.
C3_TestCountExact ==
  (test_only /\ Succeeded) =>
     /\ Len(written) = count
     /\ Distinct(written)
     /\ Len(manifest) = 1
     /\ Len(manifest[1].bins) = count
     /\ manifest[1].total_bins = count

\* C3 amended: a successful test-mode run with count N >= 0 writes N pairwise
\* distinct image files and a manifest of N records with total_bins = N; with
\* a negative count it writes no image and a manifest of zero records.
C3_TestCountNonNegative ==
  (test_only /\ Succeeded) =>
     LET n == IF count >= 0 THEN count ELSE 0
     IN  /\ Len(written) = n
         /\ Distinct(written)
         /\ \A k \in DOMAIN written : written[k] \in files
         /\ Len(manifest) = 1
         /\ Len(manifest[1].bins) = n
         /\ manifest[1].total_bins = n

\* a successful test-mode run that went round the location list
C3_Witness ==
  /\ test_only
  /\ Succeeded
  /\ count > Len(SAMPLE_LOCATIONS)
  /\ Len(written) = count

\* what holds in a state whose run failed while rendering item k
C4_Aborted ==
  failed = "render" =>
     /\ pc = "done"
     /\ result = "return1"
     /\ render_calls = Len(bins) + 1
     /\ payload_calls = render_calls
     /\ manifest_writes = 0
     /\ manifest = <<>>
     /\ Len(written) = Len(bins)
     /\ \A k \in DOMAIN written : written[k] \in files

\* what a step from such a state leaves alone
C4_Stays ==
  failed = "render" =>
     /\ render_calls' = render_calls
     /\ payload_calls' = payload_calls
     /\ bins' = bins
     /\ manifest' = manifest
     /\ files \subseteq files'

\* C4: if rendering the k-th item fails the run aborts there: no later item
\* is built or rendered, the failed item is not retried, no manifest is
\* written in that run, and the images written before item k stay in place.
C4_RenderFailureAborts == [](C4_Aborted) /\ [][C4_Stays]_vars

\* rendering failed after at least one image had been written
C4_Witness ==
  /\ failed = "render"
  /\ Len(written) >= 1

\* C5: a successful full-mode run yields exactly one record per (location,
\* category) pair, len(SAMPLE_LOCATIONS) * len(CATEGORIES) records in all, in
\* location-major, category-minor order.
C5_FullProduct ==
  (~test_only /\ Succeeded) =>
     /\ Len(bins) = Len(SAMPLE_LOCATIONS) * Len(CATEGORIES)
     /\ \A l \in 0..(Len(SAMPLE_LOCATIONS) - 1), c \in 0..(Len(CATEGORIES) - 1) :
          LET b == bins[l * Len(CATEGORIES) + c + 1]
          IN  /\ b.location_name = SAMPLE_LOCATIONS[l + 1].name
              /\ b.latitude = SAMPLE_LOCATIONS[l + 1].lat
              /\ b.longitude = SAMPLE_LOCATIONS[l + 1].lng
              /\ b.category = CATEGORIES[c + 1]

\* a full-mode run returned 0
C5_Witness ==
  /\ ~test_only
  /\ Succeeded
  /\ Len(bins) > 0

\* C6: two runs with identical inputs produce, record by record and in the
\* same order, payloads that agree on every field other than generated_at.
C6_RerunSamePayloads ==
  run = 2 =>
     /\ Len(bins) <= Len(prev_payloads)
     /\ \A k \in DOMAIN bins : payload_fields(bins[k]) = prev_payloads[k]
     /\ Succeeded => Len(bins) = Len(prev_payloads)

\* the re-run finished, at a later clock value than the first run started at
C6_Witness ==
  /\ run = 2
  /\ Succeeded
  /\ Len(bins) > 0
  /\ bins[1].generated_at > 0

\* C7: in every manifest written, total_bins is the number of records of its
\* bins list, and that list is the accumulated record sequence in generation
\* order.
C7_ManifestCounts ==
  Len(manifest) = 1 =>
     /\ manifest[1].total_bins = Len(manifest[1].bins)
     /\ manifest[1].bins = bins

\* a test-mode manifest with records in it
C7_Witness ==
  /\ test_only
  /\ Len(manifest) = 1
  /\ Len(bins) > 0

\* C8 as stated: in full mode and in test mode, each record's file name is
\* its sanitized location name, its category and its bin_id.
C8_NameFromLocation ==
  \A k \in DOMAIN bins :
     bins[k].filename = Sanitized(bins[k].location_name) \o <<"_">>
                          \o bins[k].category \o <<"_">> \o bins[k].bin_id

\* C8 amended: in full mode each record's file name is its sanitized location
\* name, its category and its bin_id joined by underscores; in test mode it
\* is "test_", the zero-padded record index, the category and the bin_id,
\* without the location name.
C8_NameByMode ==
  \A k \in DOMAIN bins :
     IF test_only
       THEN bins[k].filename = <<"t","e","s","t","_">> \o Format03d(k - 1)
                                 \o <<"_">> \o bins[k].category \o <<"_">>
                                 \o bins[k].bin_id
       ELSE bins[k].filename = Sanitized(bins[k].location_name) \o <<"_">>
                                 \o bins[k].category \o <<"_">>
                                 \o bins[k].bin_id

\* a full-mode record whose location name has a hyphen and spaces
C8_Witness ==
  /\ ~test_only
  /\ Len(bins) >= 1
  /\ \E k \in DOMAIN bins[1].location_name : bins[1].location_name[k] = "-"

\* C9: the usage line's command, with --format png in lower case, is accepted
\* by the argument parser and the run goes on to generate images.
C9_UsageLineAccepted ==
  (arg_format = USAGE_FORMAT /\ pc # "start") => result # "exit2"

\* C10: in test mode record i uses location i mod len(SAMPLE_LOCATIONS) and
\* category i mod len(CATEGORIES), so a location is only ever paired with one
\* category.
C10_TestCycles ==
  test_only =>
     /\ \A k \in DOMAIN bins :
          /\ bins[k].location_name
               = SAMPLE_LOCATIONS[((k - 1) % Len(SAMPLE_LOCATIONS)) + 1].name
          /\ bins[k].category = CATEGORIES[((k - 1) % Len(CATEGORIES)) + 1]
     /\ \A a, b \in DOMAIN bins :
          bins[a].location_name = bins[b].location_name
            => bins[a].category = bins[b].category

\* a test-mode run that used a location a second time
C10_Witness ==
  /\ test_only
  /\ Len(bins) > Len(SAMPLE_LOCATIONS)

====
